---- MODULE Spec2Model ----
(***************************************************************************)
(* Model of s5/seq_model.py: the stacked encoder, masked mean pooling and  *)
(* the classification, regression and retrieval heads.                     *)
(*                                                                         *)
(* Tensors that only pass through external collaborators (the linear       *)
(* encoder, the SequenceLayer blocks, the MLP heads) are symbolic terms:   *)
(* sequences of strings spelling the application that produced them.       *)
(* Tensors the file itself computes on (pooling, retrieval features) are   *)
(* numeric: matrices of float values, a float being an exact rational or   *)
(* the non-finite value NaN.                                               *)
(***************************************************************************)
EXTENDS Integers, Sequences, FiniteSets, TLC

VARIABLES pc, head, self, args, binding, x, length, training, integration_timesteps,
          li, calls, proj, stdout, y, num, ret, pin, pout

vars == <<pc, head, self, args, binding, x, length, training, integration_timesteps,
          li, calls, proj, stdout, y, num, ret, pin, pout>>

(* ------------------------------ bounds --------------------------------- *)
MaxLen == 2
MaxLayers == 2

(* d_model, the feature width (a module field) *)
d_model == 2

(* ------------------------------ floats --------------------------------- *)
(* A float is n/d in lowest terms with d > 0; d = 0 is the non-finite NaN. *)
NaN == [n |-> 0, d |-> 0]
F(k) == [n |-> k, d |-> 1]

Abs(k) == IF k < 0 THEN -k ELSE k

RECURSIVE GCD(_, _)
GCD(a, b) == IF b = 0 THEN a ELSE GCD(b, a % b)

Norm(n, d) == LET g == GCD(Abs(n), d) IN [n |-> n \div g, d |-> d \div g]

IsNaN(a) == a.d = 0
FAdd(a, b) == IF IsNaN(a) \/ IsNaN(b) THEN NaN ELSE Norm(a.n * b.d + b.n * a.d, a.d * b.d)
FSub(a, b) == IF IsNaN(a) \/ IsNaN(b) THEN NaN ELSE Norm(a.n * b.d - b.n * a.d, a.d * b.d)
FMul(a, b) == IF IsNaN(a) \/ IsNaN(b) THEN NaN ELSE Norm(a.n * b.n, a.d * b.d)
FDiv(a, k) == IF IsNaN(a) THEN NaN ELSE Norm(a.n, a.d * k)
FNeg(a) == IF IsNaN(a) THEN NaN ELSE [n |-> -a.n, d |-> a.d]
Bool2F(b) == IF b THEN F(1) ELSE F(0)

Vals == {F(0), F(1), NaN}
Rows == [1..d_model -> Vals]
SeqsOfLen(L) == [1..L -> Rows]
Seqs == UNION {SeqsOfLen(L) : L \in 1..MaxLen}

(* sum over axis 0 of positions 1..p of column d *)
RECURSIVE SumAxis0(_, _, _)
SumAxis0(m, d, p) == IF p = 0 THEN F(0) ELSE FAdd(SumAxis0(m, d, p - 1), m[p][d])

(* ------------------------- masked mean pooling ------------------------- *)
(* Position p of the code (0-based) is index p + 1 here.                   *)
masked_meanpool(xs, lengths) ==
    LET L == Len(xs)
        mask == [p \in 1..L |-> (p - 1) < lengths]
        prod == [p \in 1..L |-> [d \in DOMAIN xs[p] |-> FMul(Bool2F(mask[p]), xs[p][d])]]
    IN [d \in DOMAIN xs[1] |-> FDiv(SumAxis0(prod, d, L), lengths)]

(* jax.vmap(masked_meanpool): the same operations on tensors with a        *)
(* leading batch axis, the sum running over axis 1.                        *)
batch_masked_meanpool_wrongdiv(xb, lengths) ==
    LET B == Len(xb)
        L == Len(xb[1])
        mask == [b \in 1..B |-> [p \in 1..L |-> (p - 1) < lengths[b]]]
        prod == [b \in 1..B |-> [p \in 1..L |->
                    [d \in DOMAIN xb[b][p] |-> FMul(Bool2F(mask[b][p]), xb[b][p][d])]]]
    IN [b \in 1..B |-> [d \in DOMAIN xb[b][1] |->
            FDiv(SumAxis0(prod[b], d, L), lengths[1])]]

batch_masked_meanpool(xb, lengths) ==
    LET B == Len(xb)
        L == Len(xb[1])
        mask == [b \in 1..B |-> [p \in 1..L |-> (p - 1) < lengths[b]]]
        prod == [b \in 1..B |-> [p \in 1..L |->
                    [d \in DOMAIN xb[b][p] |-> FMul(Bool2F(mask[b][p]), xb[b][p][d])]]]
    IN [b \in 1..B |-> [d \in DOMAIN xb[b][1] |->
            FDiv(SumAxis0(prod[b], d, L), lengths[b])]]

(* np.mean(x, axis=0) and x[-1] *)
mean_axis0(xs) == [d \in DOMAIN xs[1] |-> FDiv(SumAxis0(xs, d, Len(xs)), Len(xs))]
last_row(xs) == xs[Len(xs)]

(* np.split(outs, 2) and the concatenation of the four feature blocks *)
RetrievalFeatures(outs) ==
    LET h == Len(outs) \div 2
        outs0 == SubSeq(outs, 1, h)
        outs1 == SubSeq(outs, h + 1, 2 * h)
    IN [i \in 1..h |->
          outs0[i] \o outs1[i]
          \o [d \in DOMAIN outs0[i] |-> FSub(outs0[i][d], outs1[i][d])]
          \o [d \in DOMAIN outs0[i] |-> FMul(outs0[i][d], outs1[i][d])]]

(* ------------------------- symbolic tensors ---------------------------- *)
None == <<"None">>
Missing == <<"<missing>">>
Timesteps == <<"dt">>
Flags == {<<"True">>, <<"False">>}

(* self.encoder(x) and self.encoder(x, integration_timesteps) *)
Enc1(t) == <<"encoder(">> \o t \o <<")">>
Enc2(t, its) == <<"encoder(">> \o t \o <<",">> \o its \o <<")">>
(* layer(x, training, integration_timesteps) of the k-th SequenceLayer *)
Layer(k, t, tr, its) ==
    <<"layer", ToString(k), "(">> \o t \o <<",">> \o tr \o <<",">> \o its \o <<")">>

Warning == "\n\nWarning:  discarding/appending integration timesteps. \n\n"

(* ----------------------- idle values of a frame ------------------------ *)
NoHead == [cls |-> "none", mode |-> "", padded |-> FALSE]
NoSelf == [n_layers |-> 0, use_integration_timestep |-> TRUE,
           append_integration_timestep |-> FALSE]
NoArgs == [x |-> <<>>, training |-> <<>>, integration_timesteps |-> <<>>]
NoNum == [rank |-> 0, data |-> <<>>]
NoRet == [kind |-> "none", val |-> <<>>]
NoPool == [fn |-> "none", x |-> <<>>, lengths |-> <<>>]

Modes == {"pool", "last", "max"}

(* The fields a head hands to its StackedEncoderModel in setup().          *)
EncoderConfigs ==
    [n_layers : 0..MaxLayers, use_integration_timestep : BOOLEAN,
     append_integration_timestep : BOOLEAN]
(* ClassificationModel and RetrievalModel leave the two timestep fields    *)
(* at the encoder's defaults.                                              *)
DefaultEncoderConfigs ==
    {c \in EncoderConfigs : c.use_integration_timestep /\ ~c.append_integration_timestep}

Init ==
    /\ pc = "idle"
    /\ head = NoHead
    /\ self = NoSelf
    /\ args = NoArgs
    /\ binding = <<>>
    /\ x = <<>>
    /\ length = <<>>
    /\ training = <<>>
    /\ integration_timesteps = <<>>
    /\ li = 0
    /\ calls = <<>>
    /\ proj = <<>>
    /\ stdout = <<>>
    /\ y = <<>>
    /\ num = NoNum
    /\ ret = NoRet
    /\ pin = NoPool
    /\ pout = <<>>

encVars == <<x, training, integration_timesteps, li, calls, proj, stdout>>
poolVars == <<pin, pout>>

(* ------------------- calls of the pooling functions -------------------- *)
Call_masked_meanpool ==
    /\ pc = "idle"
    /\ \E xs \in Seqs : \E n \in 1..Len(xs) :
          /\ pin' = [fn |-> "masked_meanpool", x |-> xs, lengths |-> n]
          /\ pout' = masked_meanpool(xs, n)
    /\ pc' = "done"
    /\ UNCHANGED <<head, self, args, binding, length, y, num, ret>>
    /\ UNCHANGED encVars

(* A batch of two sequences of one length L: any sequence, and the same    *)
(* sequence with one entry overwritten, each with its own true length.     *)
Call_batch_masked_meanpool ==
    /\ pc = "idle"
    /\ \E xs \in Seqs : \E p \in 1..Len(xs) : \E d \in 1..d_model : \E v \in Vals :
       \E na \in 1..Len(xs) : \E nb \in 1..Len(xs) :
          LET xb == <<xs, [xs EXCEPT ![p][d] = v]>>
              lengths == <<na, nb>>
          IN /\ pin' = [fn |-> "batch_masked_meanpool", x |-> xb, lengths |-> lengths]
             /\ pout' = batch_masked_meanpool(xb, lengths)
    /\ pc' = "done"
    /\ UNCHANGED <<head, self, args, binding, length, y, num, ret>>
    /\ UNCHANGED encVars

(* --------------------- Python argument binding ------------------------- *)
(* StackedEncoderModel.__call__(self, x, training, integration_timesteps): *)
(* three positional parameters, none with a default.                       *)
EncoderParams == <<"x", "training", "integration_timesteps">>

Bind(argv) ==
    [i \in 1..Len(EncoderParams) |-> IF i <= Len(argv) THEN argv[i] ELSE Missing]
BindOK(argv) == Len(argv) = Len(EncoderParams)

TypeError == [kind |-> "raise", val |-> <<"TypeError">>]

(* Enter StackedEncoderModel.__call__ with the bound arguments b. *)
EnterEncoder(b) ==
    /\ x' = b[1]
    /\ training' = b[2]
    /\ integration_timesteps' = b[3]
    /\ li' = 0
    /\ calls' = <<>>
    /\ proj' = <<>>
    /\ stdout' = <<>>
    /\ pc' = "enc_74"

(* self.encoder(...) as a head calls it: bind, then enter or raise. *)
InvokeEncoder(argv) ==
    /\ binding' = Bind(argv)
    /\ IF BindOK(argv)
       THEN EnterEncoder(Bind(argv)) /\ ret' = ret
       ELSE /\ pc' = "done"
            /\ ret' = TypeError
            /\ UNCHANGED encVars

(* ------------------- StackedEncoderModel.__call__ ---------------------- *)
Call_StackedEncoderModel ==
    /\ pc = "idle"
    /\ \E c \in EncoderConfigs : \E tr \in Flags : \E its \in {None, Timesteps} :
          /\ self' = c
          /\ args' = [x |-> <<"x">>, training |-> tr, integration_timesteps |-> its]
          /\ binding' = <<<<"x">>, tr, its>>
          /\ EnterEncoder(<<<<"x">>, tr, its>>)
    /\ head' = NoHead
    /\ UNCHANGED <<length, y, num, ret>>
    /\ UNCHANGED poolVars

(* lines 74-77: the linear encoder, with the timesteps when there are any *)
ProjectAlways1(t, its) == Enc1(t)
Project(t, its) == IF its = None THEN Enc1(t) ELSE Enc2(t, its)

EncoderProject ==
    /\ pc = "enc_74"
    /\ x' = Project(x, integration_timesteps)
    /\ proj' = Project(x, integration_timesteps)
    /\ pc' = IF integration_timesteps = None THEN "enc_88" ELSE "enc_82"
    /\ UNCHANGED <<head, self, args, binding, length, training, integration_timesteps,
                   li, calls, stdout, y, num, ret>>
    /\ UNCHANGED poolVars

(* line 82 *)
DiscardFlagsAnd(s) == (~s.use_integration_timestep) /\ s.append_integration_timestep
DiscardFlags(s) == (~s.use_integration_timestep) \/ s.append_integration_timestep

(* lines 82-86 *)
EncoderDiscard ==
    /\ pc = "enc_82"
    /\ IF DiscardFlags(self)
       THEN /\ integration_timesteps' = None
            /\ stdout' = Append(stdout, Warning)
       ELSE UNCHANGED <<integration_timesteps, stdout>>
    /\ pc' = "enc_88"
    /\ UNCHANGED <<head, self, args, binding, x, length, training, li, calls, proj,
                   y, num, ret>>
    /\ UNCHANGED poolVars

(* line 88: the layers in list order; done is the number already applied *)
NextLayerReversed(done, n) == n - done
NextLayer(done, n) == done + 1

(* lines 88-89: one iteration *)
EncoderLayer ==
    /\ pc = "enc_88"
    /\ li < self.n_layers
    /\ LET k == NextLayer(li, self.n_layers)
           out == Layer(k, x, training, integration_timesteps)
       IN /\ calls' = Append(calls, [layer |-> k, x |-> x, training |-> training,
                                     integration_timesteps |-> integration_timesteps,
                                     out |-> out])
          /\ x' = out
    /\ li' = li + 1
    /\ UNCHANGED <<pc, head, self, args, binding, length, training, integration_timesteps,
                   proj, stdout, y, num, ret>>
    /\ UNCHANGED poolVars

(* line 90; a head that called gets the output, whose numeric content is   *)
(* whatever the collaborators computed.                                    *)
EncoderReturn ==
    /\ pc = "enc_88"
    /\ li = self.n_layers
    /\ IF head.cls = "none"
       THEN /\ pc' = "done"
            /\ ret' = [kind |-> "value", val |-> x]
            /\ UNCHANGED <<y, num>>
       ELSE /\ pc' = "reg_267"
            /\ \E out \in Seqs : y' = out /\ num' = [rank |-> 2, data |-> out]
            /\ ret' = ret
    /\ UNCHANGED <<head, self, args, binding, length>>
    /\ UNCHANGED encVars
    /\ UNCHANGED poolVars

(* ------------------- ClassificationModel.__call__ ---------------------- *)
(* __call__(self, x, integration_timesteps); a padded model is given the   *)
(* pair (data, length) as x.                                               *)
Call_ClassificationModel ==
    /\ pc = "idle"
    /\ \E c \in DefaultEncoderConfigs : \E m \in Modes : \E pd \in BOOLEAN :
       \E its \in {None, Timesteps} :
          /\ self' = c
          /\ head' = [cls |-> "ClassificationModel", mode |-> m, padded |-> pd]
          /\ args' = [x |-> IF pd THEN <<"x", "length">> ELSE <<"x">>,
                      training |-> <<>>, integration_timesteps |-> its]
          /\ x' = IF pd THEN <<"x", "length">> ELSE <<"x">>
          /\ integration_timesteps' = its
    /\ pc' = "cls_177"
    /\ UNCHANGED <<binding, length, training, li, calls, proj, stdout, y, num, ret>>
    /\ UNCHANGED poolVars

(* lines 177-178 *)
ClassificationUnpack ==
    /\ pc = "cls_177"
    /\ IF head.padded
       THEN x' = <<x[1]>> /\ length' = <<x[2]>>
       ELSE UNCHANGED <<x, length>>
    /\ pc' = "cls_180"
    /\ UNCHANGED <<head, self, args, binding, training, integration_timesteps,
                   li, calls, proj, stdout, y, num, ret>>
    /\ UNCHANGED poolVars

(* line 180: the positional arguments of self.encoder(...) *)
ClassificationEncoderArgs(xt, its) == <<xt, its>>

(* line 180; the call never returns, so lines 181-198 are never reached *)
ClassificationEncode ==
    /\ pc = "cls_180"
    /\ InvokeEncoder(ClassificationEncoderArgs(x, integration_timesteps))
    /\ UNCHANGED <<head, self, args, length, y, num>>
    /\ UNCHANGED poolVars

(* ----------------- GaussianRegressionModel.__call__ -------------------- *)
(* __call__(self, x, training, integration_timesteps=None); the padded     *)
(* field is never read.                                                    *)
Call_GaussianRegressionModel ==
    /\ pc = "idle"
    /\ \E c \in EncoderConfigs : \E m \in Modes : \E tr \in Flags :
       \E its \in {None, Timesteps} :
          /\ self' = c
          /\ head' = [cls |-> "GaussianRegressionModel", mode |-> m, padded |-> FALSE]
          /\ args' = [x |-> <<"x">>, training |-> tr, integration_timesteps |-> its]
          /\ x' = <<"x">>
          /\ training' = tr
          /\ integration_timesteps' = its
    /\ pc' = "reg_266"
    /\ UNCHANGED <<binding, length, li, calls, proj, stdout, y, num, ret>>
    /\ UNCHANGED poolVars

(* line 266: the positional arguments of self.encoder(...) *)
RegressionEncoderArgs(xt, tr, its) == <<xt, tr, its>>

(* line 266 *)
RegressionEncode ==
    /\ pc = "reg_266"
    /\ InvokeEncoder(RegressionEncoderArgs(x, training, integration_timesteps))
    /\ UNCHANGED <<head, self, args, length, y, num>>
    /\ UNCHANGED poolVars

(* lines 267-270: an if / elif with no else *)
RegressionPooled(mode, t) ==
    IF mode \in {"pool"} THEN [rank |-> 1, data |-> mean_axis0(t.data)]
    ELSE IF mode \in {"last"} THEN [rank |-> 1, data |-> last_row(t.data)]
    ELSE t

RegressionPool ==
    /\ pc = "reg_267"
    /\ num' = RegressionPooled(head.mode, num)
    /\ pc' = "reg_271"
    /\ UNCHANGED <<head, self, args, binding, length, y, ret>>
    /\ UNCHANGED encVars
    /\ UNCHANGED poolVars

(* lines 271-276 *)
RegressionHeads ==
    /\ pc = "reg_271"
    /\ ret' = [kind |-> "value",
               val |-> [v |-> [fn |-> "value_head", arg |-> num],
                        a |-> [fn |-> "advantage_head", arg |-> num]]]
    /\ pc' = "done"
    /\ UNCHANGED <<head, self, args, binding, length, y, num>>
    /\ UNCHANGED encVars
    /\ UNCHANGED poolVars

(* ---------------------- RetrievalModel.__call__ ------------------------ *)
(* __call__(self, input, integration_timesteps), input = (x, lengths) *)
Call_RetrievalModel ==
    /\ pc = "idle"
    /\ \E c \in DefaultEncoderConfigs : \E pd \in BOOLEAN : \E its \in {None, Timesteps} :
          /\ self' = c
          /\ head' = [cls |-> "RetrievalModel", mode |-> "", padded |-> pd]
          /\ args' = [x |-> <<"x", "lengths">>, training |-> <<>>,
                      integration_timesteps |-> its]
          /\ x' = <<"x", "lengths">>
          /\ integration_timesteps' = its
    /\ pc' = "ret_414"
    /\ UNCHANGED <<binding, length, training, li, calls, proj, stdout, y, num, ret>>
    /\ UNCHANGED poolVars

(* line 414 *)
RetrievalUnpack ==
    /\ pc = "ret_414"
    /\ x' = <<x[1]>>
    /\ length' = <<x[2]>>
    /\ pc' = "ret_415"
    /\ UNCHANGED <<head, self, args, binding, training, integration_timesteps,
                   li, calls, proj, stdout, y, num, ret>>
    /\ UNCHANGED poolVars

(* line 415: the vmapped encoder hands each positional argument, mapped    *)
(* over its axis 0 (in_axes=(0, 0)), to StackedEncoderModel.__call__       *)
RetrievalEncoderArgs(xt, its) == <<xt, its>>

(* line 415; the call never returns, so lines 416-420 are never reached *)
RetrievalEncode ==
    /\ pc = "ret_415"
    /\ InvokeEncoder(RetrievalEncoderArgs(x, integration_timesteps))
    /\ UNCHANGED <<head, self, args, length, y, num>>
    /\ UNCHANGED poolVars

(* The caller takes the result or the exception; the next call starts      *)
(* from fresh frames.                                                      *)
Finish ==
    /\ pc = "done"
    /\ pc' = "idle"
    /\ head' = NoHead
    /\ self' = NoSelf
    /\ args' = NoArgs
    /\ binding' = <<>>
    /\ x' = <<>>
    /\ length' = <<>>
    /\ training' = <<>>
    /\ integration_timesteps' = <<>>
    /\ li' = 0
    /\ calls' = <<>>
    /\ proj' = <<>>
    /\ stdout' = <<>>
    /\ y' = <<>>
    /\ num' = NoNum
    /\ ret' = NoRet
    /\ pin' = NoPool
    /\ pout' = <<>>

Next ==
    \/ Call_masked_meanpool
    \/ Call_batch_masked_meanpool
    \/ Call_StackedEncoderModel
    \/ EncoderProject
    \/ EncoderDiscard
    \/ EncoderLayer
    \/ EncoderReturn
    \/ Call_ClassificationModel
    \/ ClassificationUnpack
    \/ ClassificationEncode
    \/ Call_GaussianRegressionModel
    \/ RegressionEncode
    \/ RegressionPool
    \/ RegressionHeads
    \/ Call_RetrievalModel
    \/ RetrievalUnpack
    \/ RetrievalEncode
    \/ Finish

Spec == Init /\ [][Next]_vars

(* ============================ properties =============================== *)
(* A call of StackedEncoderModel.__call__ has returned: directly to the    *)
(* caller, or into the regression head; x is then the returned sequence.   *)
EncoderReturned ==
    \/ pc = "done" /\ head.cls = "none" /\ args # NoArgs
    \/ pc \in {"reg_267", "reg_271", "done"} /\ head.cls = "GaussianRegressionModel"

TimestepsSupplied == args.integration_timesteps # None
TimestepsKept == self.use_integration_timestep /\ ~self.append_integration_timestep

(* the mean of rows 0..n-1 alone, each dimension on its own *)
PrefixMean(xs, n) == [d \in DOMAIN xs[1] |-> FDiv(SumAxis0(xs, d, n), n)]

(* C1: for every sequence x of L rows and every n in 1..L,                 *)
(* masked_meanpool(x, n) is, per dimension, the sum of rows 0..n-1 divided *)
(* by n, whatever rows n..L-1 hold.                                        *)
C1_MaskedMeanIsPrefixMean ==
    pin.fn = "masked_meanpool" => pout = PrefixMean(pin.x, pin.lengths)

(* C2: ClassificationModel.__call__ returns a value only for mode 'pool'   *)
(* or for mode 'last' without padding; 'last' with padding and every other *)
(* mode end in NotImplementedError.                                        *)
C2_ClassificationOutcome ==
    (pc = "done" /\ head.cls = "ClassificationModel") =>
        /\ ret.kind = "value" =>
              (head.mode = "pool" \/ (head.mode = "last" /\ ~head.padded))
        /\ (head.mode = "last" /\ head.padded) =>
              ret = [kind |-> "raise", val |-> <<"NotImplementedError">>]
        /\ head.mode \notin {"pool", "last"} =>
              ret = [kind |-> "raise", val |-> <<"NotImplementedError">>]

(* C3: GaussianRegressionModel.__call__ pools with 'pool' (mean over all L *)
(* timesteps) or 'last' (timestep L-1) and fails for every other mode, so  *)
(* both heads are only ever applied to one pooled vector.                  *)
C3_RegressionPooling ==
    (pc = "done" /\ head.cls = "GaussianRegressionModel") =>
        IF head.mode = "pool"
        THEN /\ ret.kind = "value"
             /\ ret.val.v.arg = [rank |-> 1, data |-> mean_axis0(y)]
             /\ ret.val.a.arg = [rank |-> 1, data |-> mean_axis0(y)]
        ELSE IF head.mode = "last"
        THEN /\ ret.kind = "value"
             /\ ret.val.v.arg = [rank |-> 1, data |-> last_row(y)]
             /\ ret.val.a.arg = [rank |-> 1, data |-> last_row(y)]
        ELSE ret.kind = "raise"

(* C4: RetrievalModel.__call__ on a batch of 2B sequences hands the        *)
(* decoder, for pair i, the concatenation [A_i, B_i, A_i - B_i, A_i * B_i] *)
(* with A_i pooled row i and B_i pooled row B+i.                           *)
C4_RetrievalDecoderInput ==
    (pc = "done" /\ head.cls = "RetrievalModel") =>
        /\ ret.kind = "value"
        /\ num.rank = 2
        /\ Len(pout) = 2 * Len(num.data)
        /\ \A i \in 1..Len(num.data) :
              LET A == pout[i]
                  B == pout[Len(num.data) + i]
              IN num.data[i] = A \o B
                    \o [d \in DOMAIN A |-> FSub(A[d], B[d])]
                    \o [d \in DOMAIN A |-> FMul(A[d], B[d])]

(* C5: in RetrievalModel.__call__, exchanging the two halves of the batch  *)
(* swaps the first two feature blocks, negates the difference block and    *)
(* leaves the product block as it is.                                      *)
C5_RetrievalSwap ==
    (pc = "done" /\ head.cls = "RetrievalModel") =>
        /\ ret.kind = "value"
        /\ num.rank = 2
        /\ LET h == Len(pout) \div 2
               swapped == RetrievalFeatures(SubSeq(pout, h + 1, 2 * h) \o SubSeq(pout, 1, h))
               w == d_model
           IN \A i \in 1..Len(num.data) : \A d \in 1..w :
                 /\ swapped[i][d] = num.data[i][w + d]
                 /\ swapped[i][w + d] = num.data[i][d]
                 /\ swapped[i][2 * w + d] = FNeg(num.data[i][2 * w + d])
                 /\ swapped[i][3 * w + d] = num.data[i][3 * w + d]

(* C6: with n_layers = 0 the stacked encoder returns what its linear       *)
(* encoder returns on the same input: encoder(x) without timesteps,        *)
(* encoder(x, integration_timesteps) with them.                            *)
C6_ZeroLayersIsProjection ==
    (EncoderReturned /\ self.n_layers = 0) =>
        /\ x = IF TimestepsSupplied
               THEN Enc2(args.x, args.integration_timesteps)
               ELSE Enc1(args.x)
        /\ head.cls = "none" => ret = [kind |-> "value", val |-> x]

C6_Witness ==
    /\ EncoderReturned
    /\ head.cls = "none"
    /\ self.n_layers = 0
    /\ TimestepsSupplied
    /\ ~TimestepsKept
    /\ training = <<"False">>
    /\ ret.val = <<"encoder(", "x", ",", "dt", ")">>

(* C7: batch_masked_meanpool returns, at every batch index i,              *)
(* masked_meanpool(x[i], lengths[i]), in batch order.                      *)
C7_BatchIsPointwise ==
    pin.fn = "batch_masked_meanpool" =>
        /\ Len(pout) = Len(pin.x)
        /\ \A i \in 1..Len(pin.x) : pout[i] = masked_meanpool(pin.x[i], pin.lengths[i])

C7_Witness ==
    /\ pin.fn = "batch_masked_meanpool"
    /\ pin.lengths[1] # pin.lengths[2]
    /\ pin.x[1] # pin.x[2]
    /\ pout[1] # pout[2]
    /\ \A i \in 1..2 : \A d \in 1..d_model : ~IsNaN(pout[i][d])

(* C8: supplied timesteps go to the linear encoder; the layers get them    *)
(* unchanged exactly when use_integration_timestep holds and               *)
(* append_integration_timestep does not, and None with one printed warning *)
(* otherwise, the call still returning; with no timesteps every layer gets *)
(* None and nothing is printed.                                            *)
C8_TimestepsToLayers ==
    EncoderReturned =>
        /\ proj = IF TimestepsSupplied
                  THEN Enc2(args.x, args.integration_timesteps)
                  ELSE Enc1(args.x)
        /\ Len(calls) = self.n_layers
        /\ \A k \in 1..Len(calls) :
              calls[k].integration_timesteps =
                 IF TimestepsSupplied /\ TimestepsKept
                 THEN args.integration_timesteps ELSE None
        /\ stdout = IF TimestepsSupplied /\ ~TimestepsKept THEN <<Warning>> ELSE <<>>
        /\ head.cls = "none" => ret.kind = "value"

C8_Witness ==
    /\ EncoderReturned
    /\ TimestepsSupplied
    /\ self.use_integration_timestep
    /\ self.append_integration_timestep
    /\ Len(calls) = MaxLayers
    /\ stdout = <<Warning>>
    /\ calls[1].integration_timesteps = None

(* C9: the layers run in list order after the linear encoder, each once:   *)
(* layer 1 on the encoder's output, layer k+1 on layer k's output, all     *)
(* with the same training flag and the same timesteps value, and the       *)
(* result is the last layer's output.                                      *)
C9_LayersInOrder ==
    /\ \A k \in 1..Len(calls) :
          /\ calls[k].layer = k
          /\ calls[k].x = IF k = 1 THEN proj ELSE calls[k - 1].out
          /\ calls[k].training = args.training
          /\ calls[k].integration_timesteps = calls[1].integration_timesteps
    /\ EncoderReturned =>
          /\ Len(calls) = self.n_layers
          /\ x = IF self.n_layers = 0 THEN proj ELSE calls[self.n_layers].out

C9_Witness ==
    /\ EncoderReturned
    /\ self.n_layers = MaxLayers
    /\ Len(calls) = MaxLayers
    /\ calls[MaxLayers].x = calls[MaxLayers - 1].out
    /\ x = calls[MaxLayers].out

(* C10: every head calls the stacked encoder with sequence, training flag  *)
(* and timesteps: the encoder's integration_timesteps parameter gets the   *)
(* head's timesteps and its training parameter gets a training flag.       *)
C10_HeadsBindAllThree ==
    (head.cls # "none" /\ binding # <<>>) =>
        /\ binding[1] = <<"x">>
        /\ binding[2] \in Flags
        /\ binding[3] = args.integration_timesteps

====
